---------------------------- MODULE Spec2Model ----------------------------
(***************************************************************************)
(* A model of the jsonapi crate (src/src/lib.rs) and of the code that its  *)
(* derive macros generate (src/jsonapi_resource_derive/src/lib.rs).        *)
(*                                                                         *)
(* The crate is a library of conversions: every operation is a call that   *)
(* takes its arguments by value and returns a value.  A call is modelled   *)
(* as one action: the arguments are the state before it, the returned      *)
(* value is the state after it.  Text that the code inspects character by  *)
(* character (the text of an ID) is a sequence of one-character strings;   *)
(* text that is only copied or compared (names, messages) is a string.     *)
(***************************************************************************)
EXTENDS Integers, Sequences, FiniteSets, TLC

VARIABLES
    ty,        \* the Self type of the call: an id type, a field type, a holder or an entity description
    id,        \* the ID handed to FromID::from_id
    r,         \* the Relationship handed to FromRelationship::from_relationship
    rels,      \* the Option<BTreeMap<String, RelationshipData>> handed to / returned by the holder
    req,       \* the Request handed to FromRequest::from_request
    self,      \* the receiver of an encoding call: a holder or an entity
    response,  \* the Response under assembly
    calls,     \* history: the converted resources handed to include / include_many, in call order
    built,     \* the encodings made: of the entities a Response was built from, of an entity's attributes
    result,    \* the value a call returned
    pc         \* the position of the caller

vars == <<ty, id, r, rels, req, self, response, calls, built, result, pc>>

----------------------------------------------------------------------------
(* Option and Result values.                                               *)

None == [tag |-> "None"]
Some(x) == [tag |-> "Some", val |-> x]
Ok(x) == [tag |-> "Ok", val |-> x]
Err(e) == [tag |-> "Err", err |-> e]

\* A variable a specification does not use, and a call that has not returned.
Unused == [tag |-> "Unused"]
Pending == [tag |-> "Pending"]

IsOk(x) == x.tag = "Ok"
IsErr(x) == x.tag = "Err"

----------------------------------------------------------------------------
(* Error (lib.rs 274-340).  A title is a format string and the text        *)
(* spliced after it (empty for a fixed message).                           *)

Title(fmt, arg) == <<fmt, arg>>

new_bad_request_status_mutant(title) ==
    [status |-> "InternalError", code |-> Some("Internal Server Error"),
     title |-> title, detail |-> None]

new_bad_request(title) ==
    [status |-> "BadRequest", code |-> Some("Bad Request"),
     title |-> title, detail |-> None]

new_not_found(title) ==
    [status |-> "NotFound", code |-> Some("Not Found"),
     title |-> title, detail |-> None]

----------------------------------------------------------------------------
(* ErrorStatus and the remaining constructors of Error (lib.rs 248-340).   *)

ErrorStatuses ==
    {"BadRequest", "Unauthorized", "Forbidden", "NotFound", "Conflict", "InternalError"}

new_internal_error(title) ==
    [status |-> "InternalError", code |-> Some("Internal Server Error"),
     title |-> title, detail |-> None]

new_forbidden(title) ==
    [status |-> "Forbidden", code |-> Some("Forbidden"), title |-> title, detail |-> None]

new_unauthorized(title) ==
    [status |-> "Unauthorized", code |-> Some("Unauthorized"),
     title |-> title, detail |-> None]

new_conflict(title) ==
    [status |-> "Conflict", code |-> Some("Confict"), title |-> title, detail |-> None]

----------------------------------------------------------------------------
(* Characters.                                                             *)

Digits == {"0", "1", "2", "3", "4", "5", "6", "7", "8", "9"}
HexLetters == {"a", "b", "c", "d", "e", "f", "A", "B", "C", "D", "E", "F"}
HexDigits == Digits \cup HexLetters

DigitVal(c) ==
    CASE c = "0" -> 0 [] c = "1" -> 1 [] c = "2" -> 2 [] c = "3" -> 3
      [] c = "4" -> 4 [] c = "5" -> 5 [] c = "6" -> 6 [] c = "7" -> 7
      [] c = "8" -> 8 [] c = "9" -> 9

ToLower(c) ==
    CASE c = "A" -> "a" [] c = "B" -> "b" [] c = "C" -> "c"
      [] c = "D" -> "d" [] c = "E" -> "e" [] c = "F" -> "f"
      [] OTHER -> c

\* s without its first n elements
RECURSIVE Drop(_, _)
Drop(s, n) == IF n = 0 \/ s = <<>> THEN s ELSE Drop(Tail(s), n - 1)

\* the first n elements of s
Take(s, n) == SubSeq(s, 1, IF n < Len(s) THEN n ELSE Len(s))

----------------------------------------------------------------------------
(* str::parse of the integer types, as the standard library does it:       *)
(* an optional sign, then one or more decimal digits, within the type's    *)
(* range.  A value is kept as its decimal digits without leading zeros,    *)
(* since the 64-bit range is beyond the integers TLC computes with.        *)

UsizeMaxDigits ==
    <<"1","8","4","4","6","7","4","4","0","7","3","7","0","9","5","5","1","6","1","5">>
IsizeMaxDigits ==
    <<"9","2","2","3","3","7","2","0","3","6","8","5","4","7","7","5","8","0","7">>
IsizeMinDigits ==
    <<"9","2","2","3","3","7","2","0","3","6","8","5","4","7","7","5","8","0","8">>

RECURSIVE StripZeros(_)
StripZeros(s) ==
    IF Len(s) > 1 /\ Head(s) = "0" THEN StripZeros(Tail(s)) ELSE s

\* a > b for two digit sequences of the same length
RECURSIVE LexGreater(_, _)
LexGreater(a, b) ==
    IF a = <<>> THEN FALSE
    ELSE IF DigitVal(Head(a)) # DigitVal(Head(b))
         THEN DigitVal(Head(a)) > DigitVal(Head(b))
         ELSE LexGreater(Tail(a), Tail(b))

\* a > b for two digit sequences without leading zeros
DigitsGreater(a, b) ==
    \/ Len(a) > Len(b)
    \/ Len(a) = Len(b) /\ LexGreater(a, b)

AllIn(s, S) == \A i \in 1..Len(s) : s[i] \in S

\* Ok([neg, digits]) or Err(kind)
ParseInt(s, signed) ==
    IF s = <<>> THEN Err("Empty")
    ELSE IF Head(s) \in {"+", "-"} /\ Len(s) = 1 THEN Err("InvalidDigit")
    ELSE LET neg == signed /\ Head(s) = "-"
             body == IF Head(s) = "+" \/ neg THEN Tail(s) ELSE s
             mag == StripZeros(body)
             max == IF ~signed THEN UsizeMaxDigits
                    ELSE IF neg THEN IsizeMinDigits ELSE IsizeMaxDigits
         IN  IF ~AllIn(body, Digits) THEN Err("InvalidDigit")
             ELSE IF DigitsGreater(mag, max)
                  THEN Err(IF neg THEN "NegOverflow" ELSE "PosOverflow")
             ELSE Ok([neg |-> neg /\ mag # <<"0">>, digits |-> mag])

----------------------------------------------------------------------------
(* Uuid::parse_str of the uuid crate: 32 hexadecimal digits, alone         *)
(* (simple), in groups of 8-4-4-4-12 joined by hyphens (hyphenated), or    *)
(* hyphenated after "urn:uuid:".  The value is its 32 digits, lower case.  *)
(* (The braced form, which later versions of the crate also accept, is not *)
(* among the texts drawn below.)                                           *)

UrnPrefix == <<"u", "r", "n", ":", "u", "u", "i", "d", ":">>

IsHyphenated(s) ==
    /\ Len(s) = 36
    /\ \A i \in 1..36 :
          IF i \in {9, 14, 19, 24} THEN s[i] = "-" ELSE s[i] \in HexDigits

IsSimple(s) == Len(s) = 32 /\ AllIn(s, HexDigits)

UuidDigits(s) ==
    LET hex == SelectSeq(s, LAMBDA c : c # "-")
    IN  [i \in 1..Len(hex) |-> ToLower(hex[i])]

UuidParseStr(s) ==
    LET t == IF Len(s) = 45 /\ Take(s, 9) = UrnPrefix THEN Drop(s, 9) ELSE s
    IN  IF IsHyphenated(t) \/ (t = s /\ IsSimple(s))
        THEN Ok(UuidDigits(t))
        ELSE Err("uuid::Error")

----------------------------------------------------------------------------
(* FromID (lib.rs 97-144).                                                 *)

IdTypes == {"String", "usize", "isize", "Uuid", "ID"}

from_id_String(i) == Ok(i)

from_id_usize_unwrap_mutant(i) ==
    LET p == ParseInt(i, FALSE)
    IN  IF IsOk(p) THEN Ok(p.val) ELSE [tag |-> "Panic"]

from_id_usize(i) ==
    LET p == ParseInt(i, FALSE)
    IN  IF IsOk(p) THEN Ok(p.val)
        ELSE Err(new_bad_request(Title("invalid value for unsigned id value: ", i)))

from_id_isize(i) ==
    LET p == ParseInt(i, TRUE)
    IN  IF IsOk(p) THEN Ok(p.val)
        ELSE Err(new_bad_request(Title("invalid value for integer id value: ", i)))

from_id_Uuid(i) ==
    LET p == UuidParseStr(i)
    IN  IF IsOk(p) THEN Ok(p.val)
        ELSE Err(new_bad_request(Title("invalid value for UUID id value: ", <<p.err>>)))

from_id_ID(i) == Ok(i)

\* I::from_id(id), by the type I the call is resolved for
from_id(I, i) ==
    CASE I = "String" -> from_id_String(i)
      [] I = "usize" -> from_id_usize(i)
      [] I = "isize" -> from_id_isize(i)
      [] I = "Uuid" -> from_id_Uuid(i)
      [] I = "ID" -> from_id_ID(i)

----------------------------------------------------------------------------
(* The texts an ID is drawn from.                                          *)

MaxIdLen == 2

IdAlphabet == {"7", "+", "-", "x"}

RECURSIVE TextsUpTo(_)
TextsUpTo(n) ==
    IF n = 0 THEN {<<>>}
    ELSE LET shorter == TextsUpTo(n - 1)
         IN  shorter \cup {Append(t, c) : t \in shorter, c \in IdAlphabet}

SampleUuid ==
    <<"6","7","e","5","5","0","4","4","-","1","0","b","1","-","4","2","6","F","-",
      "9","2","4","7","-","b","b","6","8","0","e","5","f","e","0","c","8">>

NamedIdTexts ==
    { <<"f","o","o","b","a","r","b","a","z">>,
      <<"n","o","t","-","a","-","n","u","m","b","e","r">>,
      <<"0","0","7">>,
      <<"-","0">>,
      UsizeMaxDigits,
      IsizeMinDigits,
      <<"-">> \o IsizeMinDigits,
      <<"1","8","4","4","6","7","4","4","0","7","3","7","0","9","5","5","1","6","1","6">>,
      SampleUuid,
      SelectSeq(SampleUuid, LAMBDA c : c # "-"),
      UrnPrefix \o SampleUuid,
      Take(SampleUuid, 35),
      [i \in 1..36 |-> IF i = 1 THEN "g" ELSE SampleUuid[i]],
      [i \in 1..36 |-> IF i = 9 THEN "0" ELSE SampleUuid[i]] }

IdTexts == TextsUpTo(MaxIdLen) \cup NamedIdTexts

----------------------------------------------------------------------------
(* A caller of FromID::from_id.                                            *)

InitFromID ==
    /\ ty \in IdTypes
    /\ id \in IdTexts
    /\ r = Unused /\ rels = Unused /\ req = Unused /\ self = Unused
    /\ response = Unused /\ calls = Unused /\ built = Unused
    /\ result = Pending
    /\ pc = "call"

CallFromID ==
    /\ pc = "call"
    /\ result' = from_id(ty, id)
    /\ pc' = "done"
    /\ UNCHANGED <<ty, id, r, rels, req, self, response, calls, built>>

NextFromID == CallFromID

SpecFromID == InitFromID /\ [][NextFromID]_vars


\* An optional sign among `signs`, then one or more decimal digits.
LooksDecimal(s, signs) ==
    LET body == IF s # <<>> /\ Head(s) \in signs THEN Tail(s) ELSE s
    IN  body # <<>> /\ AllIn(body, Digits)

\* 32 hexadecimal digits and nothing else but hyphens, after an optional
\* "urn:uuid:" or within braces: what any form of a UUID's text looks like.
LooksLikeUuid(s) ==
    LET u == IF Take(s, 9) = UrnPrefix THEN Drop(s, 9) ELSE s
        t == IF Len(u) >= 2 /\ Head(u) = "{" /\ u[Len(u)] = "}"
             THEN SubSeq(u, 2, Len(u) - 1) ELSE u
    IN  /\ AllIn(t, HexDigits \cup {"-"})
        /\ Len(SelectSeq(t, LAMBDA c : c \in HexDigits)) = 32

IsBadRequest(x) == IsErr(x) /\ x.err.status = "BadRequest"

\* C10: from_id never panics: it returns Ok or a BadRequest error.  Text that
\* is not a decimal number makes the unsigned and the signed integer decoding
\* fail with a BadRequest whose message carries the text; text that is not 32
\* hexadecimal digits makes the UUID decoding fail with BadRequest; decoding
\* into String or ID returns the text itself and never fails.
C10_FromIdBadRequest ==
    pc = "done" =>
        /\ result.tag \in {"Ok", "Err"}
        /\ IsErr(result) => result.err.status = "BadRequest"
        /\ ty \in {"String", "ID"} => result = Ok(id)
        /\ (ty = "usize" /\ ~LooksDecimal(id, {"+"})) =>
              IsBadRequest(result) /\ result.err.title[2] = id
        /\ (ty = "isize" /\ ~LooksDecimal(id, {"+", "-"})) =>
              IsBadRequest(result) /\ result.err.title[2] = id
        /\ (ty = "Uuid" /\ ~LooksLikeUuid(id)) => IsBadRequest(result)

C10_Witness ==
    /\ pc = "done"
    /\ ty = "usize"
    /\ id = <<"n","o","t","-","a","-","n","u","m","b","e","r">>
    /\ IsBadRequest(result)
    /\ result.err.title[2] = id

----------------------------------------------------------------------------
(* Wire model (lib.rs 38-49, 146-156).                                     *)

Identifier(i, typ) == [id |-> i, typ |-> typ]
ToOne(ident) == [tag |-> "ToOne", one |-> ident]
ToMany(idents) == [tag |-> "ToMany", many |-> idents]
RelationshipData(rel) == [data |-> rel]

----------------------------------------------------------------------------
(* FromRelationship (lib.rs 403-429).  A type is the sequence of its        *)
(* nested names: <<"Vec", "usize">> is Vec<usize>, <<"ID">> is ID.          *)

from_relationship_one_lenient_mutant(I, rel) ==
    IF rel.tag = "ToOne" THEN from_id(I, rel.one.id)
    ELSE IF Len(rel.many) = 1 THEN from_id(I, rel.many[1].id)
    ELSE Err(new_bad_request(
             Title("invalid relationship: expected a to-one, got to-many", <<>>)))

\* impl<I: FromID> FromRelationship for I
from_relationship_one(I, rel) ==
    IF rel.tag = "ToOne" THEN from_id(I, rel.one.id)
    ELSE Err(new_bad_request(
             Title("invalid relationship: expected a to-one, got to-many", <<>>)))

\* the loop of the Vec impl: push each decoded id, return the first error
RECURSIVE from_id_each(_, _, _)
from_id_each(I, many, results) ==
    IF many = <<>> THEN Ok(results)
    ELSE LET each == from_id(I, Head(many).id)
         IN  IF IsErr(each) THEN each
             ELSE from_id_each(I, Tail(many), Append(results, each.val))

\* impl<I: FromID> FromRelationship for Vec<I>
from_relationship_many(I, rel) ==
    IF rel.tag = "ToMany" THEN from_id_each(I, rel.many, <<>>)
    ELSE Err(new_bad_request(
             Title("invalid relationship: expected a to-many, got to-one", <<>>)))

\* T::from_relationship(rel), by the type T the call is resolved for
from_relationship(T, rel) ==
    IF Head(T) = "Vec" THEN from_relationship_many(T[2], rel)
    ELSE from_relationship_one(T[1], rel)

----------------------------------------------------------------------------
(* A caller of FromRelationship::from_relationship.                        *)

MaxMany == 2

SampleIds == {<<"7">>, <<"x">>}
SampleTypes == {"fakes", "t"}
SampleIdentifiers == {Identifier(i, t) : i \in SampleIds, t \in SampleTypes}

RECURSIVE SeqsUpTo(_, _)
SeqsUpTo(S, n) ==
    IF n = 0 THEN {<<>>}
    ELSE LET shorter == SeqsUpTo(S, n - 1)
         IN  shorter \cup {Append(t, x) : t \in shorter, x \in S}

Relationships(idents, n) ==
    {ToOne(i) : i \in idents} \cup {ToMany(m) : m \in SeqsUpTo(idents, n)}

\* the types FromRelationship is implemented for: I and Vec<I>, I: FromID
RelationTypes(ids) == {<<I>> : I \in ids} \cup {<<"Vec", I>> : I \in ids}

InitFromRelationship ==
    /\ ty \in RelationTypes(IdTypes)
    /\ r \in Relationships(SampleIdentifiers, MaxMany)
    /\ id = Unused /\ rels = Unused /\ req = Unused /\ self = Unused
    /\ response = Unused /\ calls = Unused /\ built = Unused
    /\ result = Pending
    /\ pc = "call"

CallFromRelationship ==
    /\ pc = "call"
    /\ result' = from_relationship(ty, r)
    /\ pc' = "done"
    /\ UNCHANGED <<ty, id, r, rels, req, self, response, calls, built>>

NextFromRelationship == CallFromRelationship

SpecFromRelationship == InitFromRelationship /\ [][NextFromRelationship]_vars

\* C7: a to-one field decoded from any ToMany value (the empty sequence
\* included) fails with the BadRequest that says a to-one was expected; a
\* to-many field decoded from any ToOne value fails with the BadRequest that
\* says a to-many was expected.
C7_CardinalityMismatch ==
    pc = "done" =>
        /\ (Head(ty) # "Vec" /\ r.tag = "ToMany") =>
              result = Err(new_bad_request(
                  Title("invalid relationship: expected a to-one, got to-many", <<>>)))
        /\ (Head(ty) = "Vec" /\ r.tag = "ToOne") =>
              result = Err(new_bad_request(
                  Title("invalid relationship: expected a to-many, got to-one", <<>>)))

C7_Witness ==
    /\ pc = "done"
    /\ ty = <<"usize">>
    /\ r = ToMany(<<>>)
    /\ IsBadRequest(result)

----------------------------------------------------------------------------
(* BTreeMap<String, RelationshipData>: a function from its keys.           *)

EmptyMap == <<>>

\* map.insert(k, v)
Insert(map, k, v) ==
    [x \in DOMAIN map \cup {k} |-> IF x = k THEN v ELSE map[x]]

\* the map left by map.remove(k)
Remove(map, k) == [x \in DOMAIN map \ {k} |-> map[x]]

\* the value map.remove(k) returns
Removed(map, k) == IF k \in DOMAIN map THEN Some(map[k]) ELSE None

----------------------------------------------------------------------------
(* The input of the holder derives (derive lib.rs 23-42, 341-384).  A      *)
(* RelationsProps is [ident, fields], a field [ident, name, ty] with the   *)
(* optional `name` attribute and the declared type.                        *)

RelationNames_pluralized_key_mutant(field) ==
    [resource_name |-> IF field.name.tag = "Some" THEN field.name.val
                       ELSE field.ident \o "s",
     field_name |-> field.ident,
     relation_name |-> field.ident \o "s",
     is_option |-> Head(field.ty) = "Option",
     ty |-> field.ty]

\* the closure of From<RelationsProps>; `ty` is kept for the generated
\* code, whose calls the compiler resolves by the field's declared type
RelationNames(field) ==
    [resource_name |-> IF field.name.tag = "Some" THEN field.name.val
                       ELSE field.ident \o "s",
     field_name |-> field.ident,
     relation_name |-> field.ident,
     is_option |-> Head(field.ty) = "Option",
     ty |-> field.ty]

\* impl From<RelationsProps> for RelationFieldDescription
RelationFieldDescription(props) ==
    [name |-> props.ident,
     fields |-> [i \in 1..Len(props.fields) |-> RelationNames(props.fields[i])]]

----------------------------------------------------------------------------
(* The code impl_from_relations_macro generates (derive lib.rs 160-232).   *)

all_options_any_mutant(fields) == \E i \in 1..Len(fields) : fields[i].is_option

\* all_options, as the first map leaves it
all_options(fields) == \A i \in 1..Len(fields) : fields[i].is_option

\* #none_handler: Ok(the map to consume) or the error returned
none_handler(desc, rs) ==
    IF all_options(desc.fields)
    THEN Ok(IF rs = None THEN EmptyMap ELSE rs.val)
    ELSE IF rs = None
         THEN Err(new_bad_request(Title("missing mandatory relationships object", <<>>)))
         ELSE Ok(rs.val)

\* the type from_relationship is resolved for: T of a field Option<T>, else the field's type
DecodedType(names) == IF names.is_option THEN Tail(names.ty) ELSE names.ty

var_statement_mandatory_default_mutant(names, t) ==
    IF t.tag = "Some" THEN from_relationship(DecodedType(names), t.val.data)
    ELSE Ok(<<>>)

\* one var statement of a mandatory field, given what rels.remove returned
var_statement_mandatory(names, t) ==
    IF t.tag = "Some" THEN from_relationship(DecodedType(names), t.val.data)
    ELSE Err(new_bad_request(
             Title("missing mandatory relationship '" \o names.relation_name \o "'", <<>>)))

var_statement_optional_swallow_mutant(names, t) ==
    IF t.tag = "Some"
    THEN LET v == from_relationship(DecodedType(names), t.val.data)
         IN  IF IsErr(v) THEN Ok(None) ELSE Ok(Some(v.val))
    ELSE Ok(None)

\* one var statement of an optional field, given what rels.remove returned
var_statement_optional(names, t) ==
    IF t.tag = "Some"
    THEN LET v == from_relationship(DecodedType(names), t.val.data)
         IN  IF IsErr(v) THEN v ELSE Ok(Some(v.val))
    ELSE Ok(None)

RECURSIVE var_statements_strict_mutant(_, _, _)
var_statements_strict_mutant(fields, map, struct) ==
    IF fields = <<>>
    THEN IF DOMAIN map = {} THEN Ok(struct)
         ELSE Err(new_bad_request(
                  Title("unexpected relationships for this resource type", <<>>)))
    ELSE LET names == Head(fields)
             t == Removed(map, names.relation_name)
             v == IF names.is_option THEN var_statement_optional(names, t)
                  ELSE var_statement_mandatory(names, t)
         IN  IF IsErr(v) THEN v
             ELSE var_statements_strict_mutant(
                      Tail(fields), Remove(map, names.relation_name),
                      Insert(struct, names.field_name, v.val))

\* #(#var_statements)* then the struct literal: the fields in declaration
\* order, each consuming its key; the first error is returned
RECURSIVE var_statements(_, _, _)
var_statements(fields, map, struct) ==
    IF fields = <<>> THEN Ok(struct)
    ELSE LET names == Head(fields)
             t == Removed(map, names.relation_name)
             v == IF names.is_option THEN var_statement_optional(names, t)
                  ELSE var_statement_mandatory(names, t)
         IN  IF IsErr(v) THEN v
             ELSE var_statements(Tail(fields), Remove(map, names.relation_name),
                                 Insert(struct, names.field_name, v.val))

\* the generated FromRelationships::from_relationships
derived_from_relationships(props, rs) ==
    LET desc == RelationFieldDescription(props)
        map == none_handler(desc, rs)
    IN  IF IsErr(map) THEN map
        ELSE var_statements(desc.fields, map.val, EmptyMap)

----------------------------------------------------------------------------
(* ID: From<I> (lib.rs 54-83) and IntoRelationship (lib.rs 431-457).       *)

\* Uuid::to_string: the 32 digits in groups of 8-4-4-4-12
Hyphenated(d) ==
    SubSeq(d, 1, 8) \o <<"-">> \o SubSeq(d, 9, 12) \o <<"-">> \o SubSeq(d, 13, 16)
        \o <<"-">> \o SubSeq(d, 17, 20) \o <<"-">> \o SubSeq(d, 21, 32)

\* ID::from(v), by the type I of v
id_from(I, v) ==
    CASE I = "String" -> v
      [] I = "ID" -> v
      [] I = "usize" -> v.digits
      [] I = "isize" -> IF v.neg THEN <<"-">> \o v.digits ELSE v.digits
      [] I = "Uuid" -> Hyphenated(v)

\* impl<I> IntoRelationship for I where ID: From<I>
into_relationship_one(I, v, resource_name) ==
    ToOne(Identifier(id_from(I, v), resource_name))

into_relationship_many_reverse_mutant(I, v, resource_name) ==
    ToMany([i \in 1..Len(v) |-> Identifier(id_from(I, v[Len(v) + 1 - i]), resource_name)])

\* impl<I> IntoRelationship for Vec<I> where ID: From<I>
into_relationship_many(I, v, resource_name) ==
    ToMany([i \in 1..Len(v) |-> Identifier(id_from(I, v[i]), resource_name)])

\* v.into_relationship(resource_name), by the type T of v
into_relationship(T, v, resource_name) ==
    IF Head(T) = "Vec" THEN into_relationship_many(T[2], v, resource_name)
    ELSE into_relationship_one(T[1], v, resource_name)

----------------------------------------------------------------------------
(* The code impl_relations_macro generates (derive lib.rs 234-268).        *)

statement_always_insert_mutant(names, holder, map) ==
    IF names.is_option
    THEN Insert(map, names.relation_name,
                RelationshipData(
                    IF holder[names.field_name].tag = "Some"
                    THEN into_relationship(Tail(names.ty), holder[names.field_name].val,
                                           names.resource_name)
                    ELSE ToMany(<<>>)))
    ELSE Insert(map, names.relation_name,
                RelationshipData(into_relationship(names.ty, holder[names.field_name],
                                                   names.resource_name)))

\* one statement: the map after the field's insert, if any
statement(names, holder, map) ==
    IF names.is_option
    THEN IF holder[names.field_name].tag = "Some"
         THEN Insert(map, names.relation_name,
                     RelationshipData(into_relationship(Tail(names.ty),
                                                        holder[names.field_name].val,
                                                        names.resource_name)))
         ELSE map
    ELSE Insert(map, names.relation_name,
                RelationshipData(into_relationship(names.ty, holder[names.field_name],
                                                   names.resource_name)))

RECURSIVE statements(_, _, _)
statements(fields, holder, map) ==
    IF fields = <<>> THEN map
    ELSE statements(Tail(fields), holder, statement(Head(fields), holder, map))

\* the generated IntoRelationships::into_relationships
derived_into_relationships(props, holder) ==
    Some(statements(RelationFieldDescription(props).fields, holder, EmptyMap))

----------------------------------------------------------------------------
(* Callers of a derived holder: one decodes an incoming mapping, one       *)
(* encodes a holder and hands the mapping produced to the decoder.         *)

MaxFields == 2

FieldIdents == <<"simple", "other", "third", "fourth">>
UndeclaredKey == "fake"
HolderIdTypes == {"usize"}
NameAttributes == {None, Some("fakes")}

\* the field types the derive accepts: T and Option<T>
DeclaredTypes(ids) ==
    RelationTypes(ids) \cup {<<"Option">> \o T : T \in RelationTypes(ids)}

PropsOfLen(n, names, types) ==
    { [ident |-> "FakeRelations",
       fields |-> [i \in 1..n |->
                      [ident |-> FieldIdents[i], name |-> g[i].name, ty |-> g[i].ty]]]
      : g \in [1..n -> [name : names, ty : types]] }

HolderProps ==
    UNION {PropsOfLen(n, NameAttributes, DeclaredTypes(HolderIdTypes)) : n \in 0..MaxFields}

SampleValues(I) ==
    CASE I = "usize" -> {[neg |-> FALSE, digits |-> <<"7">>]}
      [] I = "isize" -> {[neg |-> TRUE, digits |-> <<"7">>], [neg |-> FALSE, digits |-> <<"7">>]}
      [] I = "Uuid" -> {UuidDigits(SampleUuid), [i \in 1..32 |-> "0"]}
      [] OTHER -> SampleIds

RECURSIVE FieldValues(_)
FieldValues(T) ==
    IF Head(T) = "Option" THEN {None} \cup {Some(v) : v \in FieldValues(Tail(T))}
    ELSE IF Head(T) = "Vec" THEN SeqsUpTo(SampleValues(T[2]), MaxMany)
    ELSE SampleValues(T[1])

RECURSIVE HolderValues(_)
HolderValues(fields) ==
    IF fields = <<>> THEN {EmptyMap}
    ELSE {Insert(h, Head(fields).ident, v) :
             h \in HolderValues(Tail(fields)), v \in FieldValues(Head(fields).ty)}

HolderRelValues ==
    { RelationshipData(ToOne(Identifier(<<"7">>, "fakes"))),
      RelationshipData(ToOne(Identifier(<<"x">>, "fakes"))),
      RelationshipData(ToMany(<<Identifier(<<"7">>, "fakes")>>)) }

RelMaps(keys, values) == UNION {[K -> values] : K \in SUBSET keys}

IncomingRels ==
    {None} \cup
    {Some(m) : m \in RelMaps({FieldIdents[i] : i \in 1..MaxFields} \cup {UndeclaredKey},
                             HolderRelValues)}

\* mappings keyed by a field's name, by that name and "s", by a `name` attribute
NamedKeyRels ==
    {Some(m) : m \in RelMaps({FieldIdents[1], FieldIdents[1] \o "s", "fakes"},
                             {RelationshipData(ToOne(Identifier(<<"7">>, "fakes")))})}

\* holders of one field, of every type that converts to and from an ID
IdHolderProps == PropsOfLen(1, NameAttributes, DeclaredTypes(IdTypes))

InitRelationships ==
    /\ \/ /\ ty \in HolderProps
          /\ pc = "decode" /\ rels \in IncomingRels \cup NamedKeyRels /\ self = Unused
       \/ /\ ty \in HolderProps \cup IdHolderProps
          /\ pc = "encode" /\ self \in HolderValues(ty.fields) /\ rels = Pending
    /\ id = Unused /\ r = Unused /\ req = Unused
    /\ response = Unused /\ calls = Unused /\ built = Unused
    /\ result = Pending

CallFromRelationships ==
    /\ pc = "decode"
    /\ result' = derived_from_relationships(ty, rels)
    /\ pc' = "done"
    /\ UNCHANGED <<ty, id, r, rels, req, self, response, calls, built>>

CallIntoRelationships ==
    /\ pc = "encode"
    /\ rels' = derived_into_relationships(ty, self)
    /\ pc' = "decode"
    /\ UNCHANGED <<ty, id, r, req, self, response, calls, built, result>>

NextRelationships == CallFromRelationships \/ CallIntoRelationships

SpecRelationships == InitRelationships /\ [][NextRelationships]_vars

----------------------------------------------------------------------------
(* What the claims about a derived holder speak of, read off the derive    *)
(* input and the arguments of the call.                                    *)

IsOptionalField(f) == Head(f.ty) = "Option"
IsMandatoryField(f) == ~IsOptionalField(f)

\* T of a field declared Option<T>, else the declared type
InnerType(f) == IF IsOptionalField(f) THEN Tail(f.ty) ELSE f.ty

FieldSet == {ty.fields[i] : i \in 1..Len(ty.fields)}

\* the incoming mapping of a call that got one; the empty one stands for an absent mapping
Incoming == IF rels.tag = "Some" THEN rels.val ELSE EmptyMap

KeyPresent(f) == f.ident \in DOMAIN Incoming

\* the FromRelationship decoding of the entry of a field whose key is present
EntryDecoding(f) == from_relationship(InnerType(f), Incoming[f.ident].data)

\* the field's own step of the decoding cannot succeed
FieldFails(f) == IF KeyPresent(f) THEN IsErr(EntryDecoding(f)) ELSE IsMandatoryField(f)

NoEarlierFailure(i) == \A j \in 1..(i - 1) : ~FieldFails(ty.fields[j])

MissingObject == new_bad_request(Title("missing mandatory relationships object", <<>>))
MissingRelationship(f) ==
    new_bad_request(Title("missing mandatory relationship '" \o f.ident \o "'", <<>>))

AllAbsent == [k \in {f.ident : f \in FieldSet} |-> None]

\* C2: an absent incoming mapping is accepted exactly when every field is
\* optional: with a mandatory field the call fails with BadRequest "missing
\* mandatory relationships object" (not with an error about a key), with only
\* optional fields it returns the holder with every field None, which is also
\* what decoding the empty mapping returns.
C2_AbsentMapping ==
    pc = "done" =>
        /\ (rels = None /\ \E f \in FieldSet : IsMandatoryField(f)) =>
              result = Err(MissingObject)
        /\ (rels \in {None, Some(EmptyMap)} /\ \A f \in FieldSet : IsOptionalField(f)) =>
              result = Ok(AllAbsent)

C2_Witness ==
    /\ pc = "done"
    /\ rels = None
    /\ Len(ty.fields) = 2
    /\ IsOptionalField(ty.fields[1])
    /\ IsMandatoryField(ty.fields[2])
    /\ result = Err(MissingObject)

C2_WitnessAllOptional ==
    /\ pc = "done"
    /\ rels = None
    /\ Len(ty.fields) = 2
    /\ \A f \in FieldSet : IsOptionalField(f)
    /\ IsOk(result)

\* C3 as stated: with a present mapping, every mandatory field whose key is
\* missing makes the call fail with the BadRequest "missing mandatory
\* relationship '<name>'" that names that field, and Ok is returned only when
\* every mandatory key was present and decoded through FromRelationship.
C3_Original ==
    (pc = "done" /\ rels.tag = "Some") =>
        /\ \A f \in FieldSet :
              (IsMandatoryField(f) /\ ~KeyPresent(f)) => result = Err(MissingRelationship(f))
        /\ IsOk(result) =>
              \A f \in FieldSet :
                  IsMandatoryField(f) =>
                      /\ KeyPresent(f)
                      /\ IsOk(EntryDecoding(f))
                      /\ result.val[f.ident] = EntryDecoding(f).val

\* C3, amended: with a present mapping, every mandatory field whose key is
\* missing makes the call fail with a BadRequest; the error is "missing
\* mandatory relationship '<name>'" naming that field when no field declared
\* before it fails; Ok is returned only when every mandatory key was present
\* and decoded through FromRelationship.
C3_MissingMandatory ==
    (pc = "done" /\ rels.tag = "Some") =>
        /\ \A i \in 1..Len(ty.fields) :
              LET f == ty.fields[i]
              IN  (IsMandatoryField(f) /\ ~KeyPresent(f)) =>
                      /\ IsBadRequest(result)
                      /\ NoEarlierFailure(i) => result = Err(MissingRelationship(f))
        /\ IsOk(result) =>
              \A f \in FieldSet :
                  IsMandatoryField(f) =>
                      /\ KeyPresent(f)
                      /\ IsOk(EntryDecoding(f))
                      /\ result.val[f.ident] = EntryDecoding(f).val

C3_Witness ==
    /\ pc = "done"
    /\ rels = Some(EmptyMap)
    /\ Len(ty.fields) = 1
    /\ ty.fields[1].ty = <<"usize">>
    /\ result = Err(new_bad_request(
                    Title("missing mandatory relationship 'simple'", <<>>)))

\* C4 as stated: an optional field whose key is missing decodes to None and
\* causes no error; when its key is present the field is Some of the
\* FromRelationship decoding of the entry, and a failure of that decoding is
\* the error returned.
C4_Original ==
    (pc = "done" /\ rels.tag \in {"None", "Some"}) =>
        /\ IsErr(result) =>
              \/ rels = None /\ \E f \in FieldSet : IsMandatoryField(f)
              \/ \E f \in FieldSet : FieldFails(f)
        /\ \A f \in FieldSet :
              IsOptionalField(f) =>
                  /\ (IsOk(result) /\ ~KeyPresent(f)) => result.val[f.ident] = None
                  /\ (IsOk(result) /\ KeyPresent(f)) =>
                        /\ IsOk(EntryDecoding(f))
                        /\ result.val[f.ident] = Some(EntryDecoding(f).val)
                  /\ (KeyPresent(f) /\ IsErr(EntryDecoding(f))) => result = EntryDecoding(f)

\* C4, amended: an optional field whose key is missing decodes to None and
\* causes no error (an error returned is that of the absent mapping or of a
\* field that fails, and a missing optional key is neither); when its key is
\* present the field is Some of the FromRelationship decoding of the entry; a
\* failure of that decoding makes the call fail, never yields None, and is the
\* error returned when no field declared before it fails.
C4_OptionalField ==
    (pc = "done" /\ rels.tag \in {"None", "Some"}) =>
        /\ IsErr(result) =>
              \/ rels = None /\ \E f \in FieldSet : IsMandatoryField(f)
              \/ \E f \in FieldSet : FieldFails(f)
        /\ \A i \in 1..Len(ty.fields) :
              LET f == ty.fields[i]
              IN  IsOptionalField(f) =>
                      /\ (IsOk(result) /\ ~KeyPresent(f)) => result.val[f.ident] = None
                      /\ (IsOk(result) /\ KeyPresent(f)) =>
                            /\ IsOk(EntryDecoding(f))
                            /\ result.val[f.ident] = Some(EntryDecoding(f).val)
                      /\ (KeyPresent(f) /\ IsErr(EntryDecoding(f))) =>
                            /\ IsErr(result)
                            /\ (rels.tag = "Some" /\ NoEarlierFailure(i)) =>
                                  result = EntryDecoding(f)

C4_Witness ==
    /\ pc = "done"
    /\ Len(ty.fields) = 2
    /\ ty.fields[1].ty = <<"Option", "usize">>
    /\ ty.fields[2].ty = <<"Option", "usize">>
    /\ rels = Some([k \in {"other"} |->
                       RelationshipData(ToOne(Identifier(<<"7">>, "fakes")))])
    /\ result = Ok([k \in {"simple", "other"} |->
                       IF k = "simple" THEN None
                       ELSE Some([neg |-> FALSE, digits |-> <<"7">>])])

C4_WitnessFailure ==
    /\ pc = "done"
    /\ Len(ty.fields) = 1
    /\ ty.fields[1].ty = <<"Option", "usize">>
    /\ KeyPresent(ty.fields[1])
    /\ IsErr(EntryDecoding(ty.fields[1]))
    /\ result = EntryDecoding(ty.fields[1])

\* the keys the holder's fields declare, and a mapping without its other keys
DeclaredKeys == {f.ident : f \in FieldSet}
Restrict(map, keys) == [k \in DOMAIN map \cap keys |-> map[k]]

\* C13: keys of the incoming mapping that no field of a derived holder
\* declares are ignored: the outcome of from_relationships, the holder decoded
\* or the error returned, is the outcome for the mapping without those keys,
\* whatever their number and their values.
C13_UndeclaredIgnored ==
    (pc = "done" /\ rels.tag = "Some") =>
        result = derived_from_relationships(ty, Some(Restrict(rels.val, DeclaredKeys)))

C13_Witness ==
    /\ pc = "done"
    /\ Len(ty.fields) = 1
    /\ ty.fields[1].ty = <<"usize">>
    /\ rels.tag = "Some"
    /\ DOMAIN rels.val = {"simple", "other", UndeclaredKey}
    /\ rels.val["other"].data.tag = "ToMany"
    /\ rels.val[UndeclaredKey].data = ToOne(Identifier(<<"x">>, "fakes"))
    /\ result = Ok([k \in {"simple"} |-> [neg |-> FALSE, digits |-> <<"7">>]])

C13_WitnessError ==
    /\ pc = "done"
    /\ Len(ty.fields) = 1
    /\ rels.tag = "Some"
    /\ DOMAIN rels.val = {UndeclaredKey}
    /\ result = Err(MissingRelationship(ty.fields[1]))

\* the resource type name of a field: the `name` attribute, else the field name and "s"
ResourceTypeName(f) == IF f.name.tag = "Some" THEN f.name.val ELSE f.ident \o "s"

\* C5: the keys of the mapping into_relationships returns are the names of
\* the mandatory fields and of the optional fields that are Some; a None
\* field has no key; each entry is the IntoRelationship encoding of the
\* field's value under the field's resource type name.
C5_IntoRelationshipsKeys ==
    (self # Unused /\ pc # "encode") =>
        /\ rels.tag = "Some"
        /\ DOMAIN rels.val =
              {f.ident : f \in {g \in FieldSet :
                                   IsMandatoryField(g) \/ self[g.ident] # None}}
        /\ \A f \in FieldSet :
              IF IsMandatoryField(f)
              THEN rels.val[f.ident] =
                       RelationshipData(
                           into_relationship(f.ty, self[f.ident], ResourceTypeName(f)))
              ELSE IF self[f.ident] = None THEN f.ident \notin DOMAIN rels.val
              ELSE rels.val[f.ident] =
                       RelationshipData(
                           into_relationship(Tail(f.ty), self[f.ident].val,
                                             ResourceTypeName(f)))

C5_Witness ==
    /\ self # Unused
    /\ pc = "decode"
    /\ Len(ty.fields) = 2
    /\ ty.fields[1].ty = <<"Option", "usize">>
    /\ ty.fields[1].name = None
    /\ ty.fields[2].ty = <<"Vec", "usize">>
    /\ self["simple"] = None
    /\ Len(self["other"]) = 2
    /\ DOMAIN rels.val = {"other"}

C5_WitnessSome ==
    /\ self # Unused
    /\ pc = "decode"
    /\ Len(ty.fields) = 1
    /\ ty.fields[1].ty = <<"Option", "usize">>
    /\ ty.fields[1].name = None
    /\ rels = Some([k \in {"simple"} |->
                       RelationshipData(ToOne(Identifier(<<"7">>, "simples")))])

\* the wire name the relation of a field is said to have: the `name`
\* attribute, else the field name and "s"
WireName(f) == IF f.name.tag = "Some" THEN f.name.val ELSE f.ident \o "s"

Emitted(f) == IsMandatoryField(f) \/ self[f.ident] # None

Identifiers(rel) ==
    IF rel.tag = "ToOne" THEN {rel.one} ELSE {rel.many[i] : i \in 1..Len(rel.many)}

\* the holder type without its `name` attributes
WithoutNames(props) ==
    [props EXCEPT !.fields = [i \in 1..Len(props.fields) |->
                                 [props.fields[i] EXCEPT !.name = None]]]

\* C14 as stated: the key under which a field's relationship is inserted on
\* encoding and looked up on decoding is the field name followed by "s", or
\* the `name` attribute when the field has one.
C14_Original ==
    /\ (self # Unused /\ pc # "encode") =>
           /\ rels.tag = "Some"
           /\ DOMAIN rels.val = {WireName(f) : f \in {g \in FieldSet : Emitted(g)}}
    /\ (self = Unused /\ pc = "done" /\ rels.tag = "Some") =>
           \A f \in FieldSet :
               (IsMandatoryField(f) /\ WireName(f) \notin DOMAIN rels.val) => IsErr(result)

\* C14, amended: the key under which a field's relationship is inserted on
\* encoding and looked up on decoding is the field name itself, with or
\* without a `name` attribute; the field name followed by "s", replaced by
\* the `name` attribute when there is one, is the resource type name that
\* encoding writes into the `type` of the identifiers of that relationship,
\* and decoding does not depend on the attribute.
C14_WireName ==
    /\ (self # Unused /\ pc # "encode") =>
           /\ rels.tag = "Some"
           /\ DOMAIN rels.val = {f.ident : f \in {g \in FieldSet : Emitted(g)}}
           /\ \A f \in FieldSet :
                 f.ident \in DOMAIN rels.val =>
                     \A i \in Identifiers(rels.val[f.ident].data) : i.typ = WireName(f)
    /\ (pc = "done" /\ rels.tag = "Some") =>
           /\ \A f \in FieldSet :
                 (IsMandatoryField(f) /\ f.ident \notin DOMAIN rels.val) => IsErr(result)
           /\ (\A f \in FieldSet : ~FieldFails(f)) =>
                 /\ IsOk(result)
                 /\ \A f \in FieldSet :
                       result.val[f.ident] =
                           IF ~KeyPresent(f) THEN None
                           ELSE IF IsOptionalField(f) THEN Some(EntryDecoding(f).val)
                           ELSE EntryDecoding(f).val
           /\ result = derived_from_relationships(WithoutNames(ty), rels)

\* a mandatory field `simple` named "fakes": the mapping has the keys
\* "simples" and "fakes" and not "simple", and the key is reported missing
C14_Witness ==
    /\ pc = "done"
    /\ self = Unused
    /\ Len(ty.fields) = 1
    /\ ty.fields[1] = [ident |-> "simple", name |-> Some("fakes"), ty |-> <<"usize">>]
    /\ rels.tag = "Some"
    /\ DOMAIN rels.val = {"simples", "fakes"}
    /\ result = Err(MissingRelationship(ty.fields[1]))

C14_WitnessEncode ==
    /\ self # Unused
    /\ pc = "decode"
    /\ Len(ty.fields) = 2
    /\ ty.fields[1].name = None
    /\ ty.fields[2].name = Some("fakes")
    /\ ty.fields[2].ty = <<"Vec", "usize">>
    /\ DOMAIN rels.val = {"simple", "other"}
    /\ rels.val["simple"].data.one.typ = "simples"
    /\ Len(rels.val["other"].data.many) = 2
    /\ rels.val["other"].data.many[2].typ = "fakes"

\* C18: decoding the mapping that into_relationships returns for a holder
\* succeeds and returns that holder, whatever its fields (mandatory or
\* optional, to-one or to-many, of any type that converts to and from an ID)
\* and their values; a holder whose fields are all None is encoded as a
\* present, empty mapping and decoded from it.
C18_HolderRoundTrip ==
    /\ (self # Unused /\ pc = "done") => result = Ok(self)
    /\ (/\ self # Unused /\ pc # "encode"
        /\ \A f \in FieldSet : IsOptionalField(f) /\ self[f.ident] = None) =>
           rels = Some(EmptyMap)

C18_Witness ==
    /\ pc = "done"
    /\ self # Unused
    /\ Len(ty.fields) = 1
    /\ ty.fields[1].ty = <<"Option", "Vec", "isize">>
    /\ self["simple"] = Some(<<[neg |-> FALSE, digits |-> <<"7">>],
                               [neg |-> TRUE, digits |-> <<"7">>]>>)
    /\ rels.val["simple"].data.many[2].id = <<"-", "7">>
    /\ result = Ok(self)

C18_WitnessAllNone ==
    /\ pc = "done"
    /\ self # Unused
    /\ Len(ty.fields) = 2
    /\ \A f \in FieldSet : IsOptionalField(f) /\ self[f.ident] = None
    /\ rels = Some(EmptyMap)
    /\ result = Ok(self)

C18_WitnessUuid ==
    /\ pc = "done"
    /\ self # Unused
    /\ Len(ty.fields) = 1
    /\ ty.fields[1].ty = <<"Uuid">>
    /\ self["simple"] = UuidDigits(SampleUuid)
    /\ result = Ok(self)

----------------------------------------------------------------------------
(* FromRelationships for () (lib.rs 375-390), and the dispatch on the      *)
(* holder type: "()" or a type with the derived implementation.            *)

Unit == [tag |-> "Unit"]

\* the declared type of an entity's field: a holder type, an id type, an attributes type
UnitType == [kind |-> "unit"]
DerivedType(props) == [kind |-> "derived", props |-> props]
IdType(I) == [kind |-> "id", name |-> I]
AttributesType(A) == [kind |-> "attributes", name |-> A]

unit_from_relationships_lenient_mutant(rs) == Ok(Unit)

\* impl FromRelationships for ()
unit_from_relationships(rs) ==
    IF rs = None THEN Ok(Unit)
    ELSE IF Cardinality(DOMAIN rs.val) = 0 THEN Ok(Unit)
    ELSE Err(new_bad_request(
             Title("unexpected relationships for this resource type", <<>>)))

\* <T as FromRelationships>::from_relationships(rs)
from_relationships(T, rs) ==
    IF T.kind = "unit" THEN unit_from_relationships(rs)
    ELSE derived_from_relationships(T.props, rs)

----------------------------------------------------------------------------
(* The input of the entity derives (derive lib.rs 9-21, 333-339, 386-421). *)
(* A ResourceProps is [ident, name, fields], a field [ident, ty].          *)

\* the last field named `ident`, as the loop over the fields leaves it
RECURSIVE FindField(_, _, _)
FindField(fields, ident, found) ==
    IF fields = <<>> THEN found
    ELSE FindField(Tail(fields), ident,
                   IF Head(fields).ident = ident THEN Some(Head(fields)) ELSE found)

\* impl From<ResourceProps> for ResourceFieldDescription
ResourceFieldDescription(props) ==
    [name |-> props.ident,
     type_name |-> IF props.name.tag = "Some" THEN props.name.val ELSE props.ident \o "s",
     id_field |-> FindField(props.fields, "id", None),
     attr_field |-> FindField(props.fields, "attributes", None),
     relations_field |-> FindField(props.fields, "relations", None)]

----------------------------------------------------------------------------
(* The code impl_from_request_macro generates (derive lib.rs 65-158).      *)

missing_id_err(desc) ==
    Title("missing required id field in request for resource " \o desc.type_name, <<>>)
id_not_allowed_err(desc) ==
    Title("'id' field not allowed in request for resource " \o desc.type_name, <<>>)

id_let_statement_ignore_mutant(desc, rq) ==
    IF desc.id_field.tag = "Some"
    THEN IF rq.data.id.tag = "Some" THEN Ok(rq.data.id.val)
         ELSE Err(new_bad_request(missing_id_err(desc)))
    ELSE Ok(Unit)

\* #id_let_statement: Ok(the id bound, if any) or the error returned
id_let_statement(desc, rq) ==
    IF desc.id_field.tag = "Some"
    THEN IF rq.data.id.tag = "Some" THEN Ok(rq.data.id.val)
         ELSE Err(new_bad_request(missing_id_err(desc)))
    ELSE IF rq.data.id.tag = "Some"
         THEN Err(new_bad_request(id_not_allowed_err(desc)))
         ELSE Ok(Unit)

relations_let_statement_typed_mutant(desc, rq) ==
    IF rq.data.typ # desc.type_name
    THEN Err(new_bad_request(Title("unexpected type for this resource", <<>>)))
    ELSE IF desc.relations_field.tag = "Some"
         THEN from_relationships(desc.relations_field.val.ty, rq.data.relationships)
         ELSE from_relationships(UnitType, rq.data.relationships)

\* #relations_let_statement: Ok(rels) or the error returned
relations_let_statement(desc, rq) ==
    IF desc.relations_field.tag = "Some"
    THEN from_relationships(desc.relations_field.val.ty, rq.data.relationships)
    ELSE from_relationships(UnitType, rq.data.relationships)

\* the struct literal: #id_statement (the one fallible field), then
\* #relations_statement and #attributes_statement
result_struct(desc, rq, i, rs) ==
    LET idv == IF desc.id_field.tag = "Some"
               THEN from_id(desc.id_field.val.ty.name, i)
               ELSE Ok(Unit)
        s0 == IF desc.id_field.tag = "Some" THEN Insert(EmptyMap, "id", idv.val)
              ELSE EmptyMap
        s1 == IF desc.relations_field.tag = "Some" THEN Insert(s0, "relations", rs)
              ELSE s0
        s2 == IF desc.attr_field.tag = "Some"
              THEN Insert(s1, "attributes", rq.data.attributes)
              ELSE s1
    IN  IF IsErr(idv) THEN idv ELSE Ok(s2)

from_request_id_first_mutant(props, rq) ==
    LET desc == ResourceFieldDescription(props)
        i == id_let_statement(desc, rq)
    IN  IF IsErr(i) THEN i
        ELSE LET idv == IF desc.id_field.tag = "Some"
                        THEN from_id(desc.id_field.val.ty.name, i.val)
                        ELSE Ok(Unit)
                 rs == relations_let_statement(desc, rq)
             IN  IF IsErr(idv) THEN idv
                 ELSE IF IsErr(rs) THEN rs
                 ELSE result_struct(desc, rq, i.val, rs.val)

\* the generated FromRequest::from_request
from_request(props, rq) ==
    LET desc == ResourceFieldDescription(props)
        i == id_let_statement(desc, rq)
    IN  IF IsErr(i) THEN i
        ELSE LET rs == relations_let_statement(desc, rq)
             IN  IF IsErr(rs) THEN rs
                 ELSE result_struct(desc, rq, i.val, rs.val)

----------------------------------------------------------------------------
(* The code impl_responder_macro generates (derive lib.rs 270-331).  The   *)
(* macro unwraps the id field: the derive is accepted for an entity that   *)
(* declares `id` alone.                                                    *)

responder_derivable(desc) == desc.id_field.tag = "Some"

attributes_none_mutant(desc, entity) == None

\* fn attributes(&self): #attr_fn
attributes(desc, entity) ==
    IF desc.attr_field.tag = "Some" THEN entity["attributes"] ELSE None

----------------------------------------------------------------------------
(* A caller of a derived FromRequest::from_request, who then asks the      *)
(* entity decoded for its attributes.                                      *)

EntityIdTypes == {"usize"}
ResourceNames == {None, Some("simples")}
AttributeValues == {[foo |-> "test", bar |-> Some(4)], [foo |-> "testing", bar |-> None]}

\* the holders of the entities decoded: fields of type usize or Option<usize>
EntityHolders ==
    UNION {PropsOfLen(n, {None}, {<<"usize">>, <<"Option", "usize">>}) : n \in 0..MaxFields}

IdFields == {<<>>} \cup {<<[ident |-> "id", ty |-> IdType(I)]>> : I \in EntityIdTypes}
AttrFields == {<<>>, <<[ident |-> "attributes", ty |-> AttributesType("SimpleAttributes")]>>}
RelationsFields ==
    {<<>>} \cup {<<[ident |-> "relations", ty |-> T]>> :
                    T \in {UnitType} \cup {DerivedType(h) : h \in EntityHolders}}

EntityProps ==
    { [ident |-> "SimpleRequest", name |-> n, fields |-> i \o a \o rf]
      : n \in ResourceNames, i \in IdFields, a \in AttrFields, rf \in RelationsFields }

\* the values of the Attributes type of the generated impl
AttributesOf(props) ==
    IF \E k \in 1..Len(props.fields) : props.fields[k].ident = "attributes"
    THEN AttributeValues
    ELSE {None, Some(Unit)}

Requests(props) ==
    { [data |-> [id |-> i, typ |-> t, attributes |-> a, relationships |-> rs]]
      : i \in {None} \cup {Some(x) : x \in SampleIds},
        t \in {"simples", "t"},
        a \in AttributesOf(props),
        rs \in IncomingRels }

Init ==
    /\ ty \in EntityProps
    /\ req \in Requests(ty)
    /\ id = Unused /\ r = Unused /\ rels = Unused /\ self = Unused
    /\ response = Unused /\ calls = Unused /\ built = Unused
    /\ result = Pending
    /\ pc = "call"

CallFromRequest ==
    /\ pc = "call"
    /\ result' = from_request(ty, req)
    /\ pc' = "done"
    /\ UNCHANGED <<ty, id, r, rels, req, self, response, calls, built>>

CallAttributes ==
    /\ pc = "done"
    /\ IsOk(result)
    /\ responder_derivable(ResourceFieldDescription(ty))
    /\ self' = result.val
    /\ built' = attributes(ResourceFieldDescription(ty), result.val)
    /\ pc' = "encoded"
    /\ UNCHANGED <<ty, id, r, rels, req, response, calls, result>>

Next == CallFromRequest \/ CallAttributes

Spec == Init /\ [][Next]_vars

----------------------------------------------------------------------------
(* What the claims about a derived FromRequest speak of.                   *)

Declares(ident) == \E k \in 1..Len(ty.fields) : ty.fields[k].ident = ident

RequestHasId == req.data.id # None

\* the id type of an entity that declares `id`
DeclaredIdType ==
    (CHOOSE f \in {ty.fields[k] : k \in 1..Len(ty.fields)} : f.ident = "id").ty.name

\* the resource name the messages carry: the `name` attribute, else the type's name and "s"
TypeName == IF ty.name.tag = "Some" THEN ty.name.val ELSE ty.ident \o "s"

MissingId ==
    new_bad_request(
        Title("missing required id field in request for resource " \o TypeName, <<>>))
IdNotAllowed ==
    new_bad_request(
        Title("'id' field not allowed in request for resource " \o TypeName, <<>>))
UnexpectedRelationships ==
    new_bad_request(Title("unexpected relationships for this resource type", <<>>))

\* C1: from_request returns the BadRequest of the id-presence check exactly
\* when the entity and the request disagree about the id: "missing required id
\* field" when the entity declares `id` and the request has none, "'id' field
\* not allowed" when the entity declares no `id` and the request has one; when
\* they agree, neither error is returned.
C1_IdPresence ==
    pc = "done" =>
        /\ result = Err(MissingId) <=> (Declares("id") /\ ~RequestHasId)
        /\ result = Err(IdNotAllowed) <=> (~Declares("id") /\ RequestHasId)
        /\ (Declares("id") <=> RequestHasId) => result \notin {Err(MissingId), Err(IdNotAllowed)}

C1_Witness ==
    /\ pc = "done"
    /\ ~Declares("id")
    /\ RequestHasId
    /\ req.data.relationships # None
    /\ result = Err(IdNotAllowed)
    /\ result.err.status = "BadRequest"

C1_WitnessMissing ==
    /\ pc = "done"
    /\ Declares("id")
    /\ ~RequestHasId
    /\ result = Err(MissingId)

\* the entity's relations are the unit holder: no `relations` field, or one of type ()
UnitRelations ==
    \A k \in 1..Len(ty.fields) :
        ty.fields[k].ident = "relations" => ty.fields[k].ty = UnitType

RelationshipsNonEmpty ==
    /\ req.data.relationships # None
    /\ DOMAIN req.data.relationships.val # {}

\* C6: for an entity whose relations are the unit holder, a request with a
\* relationships mapping of at least one key makes from_request fail, with
\* the BadRequest "unexpected relationships for this resource type" once the
\* id-presence check has passed; with the mapping absent or empty the unit
\* holder is decoded without error: that error is not returned, and the
\* request is decoded whenever its id is present as declared and decodes.
C6_UnitHolder ==
    (pc = "done" /\ UnitRelations) =>
        /\ RelationshipsNonEmpty => IsBadRequest(result)
        /\ (RelationshipsNonEmpty /\ (Declares("id") <=> RequestHasId)) =>
              result = Err(UnexpectedRelationships)
        /\ ~RelationshipsNonEmpty => result # Err(UnexpectedRelationships)
        /\ (/\ ~RelationshipsNonEmpty
            /\ Declares("id") <=> RequestHasId
            /\ RequestHasId => IsOk(from_id(DeclaredIdType, req.data.id.val))) => IsOk(result)

C6_Witness ==
    /\ pc = "done"
    /\ ~Declares("relations")
    /\ Declares("id")
    /\ req.data.id = Some(<<"7">>)
    /\ req.data.relationships # None
    /\ DOMAIN req.data.relationships.val = {"fake"}
    /\ result = Err(UnexpectedRelationships)

C6_WitnessEmpty ==
    /\ pc = "done"
    /\ ~Declares("relations")
    /\ req.data.relationships = Some(EmptyMap)
    /\ IsOk(result)

\* The steps of a decoding, each by itself: the error of the step, if it fails.

PresenceError ==
    IF Declares("id") /\ ~RequestHasId THEN Some(MissingId)
    ELSE IF ~Declares("id") /\ RequestHasId THEN Some(IdNotAllowed)
    ELSE None

IdDecodeError ==
    IF Declares("id") /\ RequestHasId /\ IsErr(from_id(DeclaredIdType, req.data.id.val))
    THEN Some(from_id(DeclaredIdType, req.data.id.val).err)
    ELSE None

\* the error of one relation field, given the mapping
FieldError(f, map) ==
    IF f.ident \in DOMAIN map
    THEN LET d == from_relationship(InnerType(f), map[f.ident].data)
         IN  IF IsErr(d) THEN Some(d.err) ELSE None
    ELSE IF IsMandatoryField(f) THEN Some(MissingRelationship(f))
    ELSE None

\* the error of the first field, in declaration order, that fails
DerivedHolderError(props, rs) ==
    IF rs = None
    THEN IF \E i \in 1..Len(props.fields) : IsMandatoryField(props.fields[i])
         THEN Some(MissingObject)
         ELSE None
    ELSE LET failing == {i \in 1..Len(props.fields) :
                            FieldError(props.fields[i], rs.val) # None}
         IN  IF failing = {} THEN None
             ELSE FieldError(props.fields[CHOOSE i \in failing : \A j \in failing : i <= j],
                             rs.val)

RelationsError ==
    IF UnitRelations
    THEN IF RelationshipsNonEmpty THEN Some(UnexpectedRelationships) ELSE None
    ELSE DerivedHolderError(
             (CHOOSE f \in {ty.fields[k] : k \in 1..Len(ty.fields)} :
                  f.ident = "relations").ty.props,
             req.data.relationships)

\* the first error of a sequence of steps
RECURSIVE FirstError(_)
FirstError(steps) ==
    IF steps = <<>> THEN None
    ELSE IF Head(steps) # None THEN Head(steps)
    ELSE FirstError(Tail(steps))

\* the outcome is one entity with the fields declared, or one Error
OneOutcome ==
    \/ /\ IsOk(result)
       /\ DOMAIN result.val = {x \in {"id", "attributes", "relations"} : Declares(x)}
    \/ /\ IsErr(result)
       /\ result.err.status \in ErrorStatuses

\* C17 as stated: from_request returns one entity or one Error, the Error of
\* the first step that fails, the steps being: the presence of the id, the
\* decoding of the id through FromID, the decoding of the relationships,
\* field by field in declaration order.
C17_Original ==
    pc = "done" =>
        /\ OneOutcome
        /\ LET first == FirstError(<<PresenceError, IdDecodeError, RelationsError>>)
           IN  IF first = None THEN IsOk(result) ELSE result = Err(first.val)

\* C17, amended: from_request returns one entity or one Error, the Error of
\* the first step that fails, the steps being: the presence of the id, the
\* decoding of the relationships, field by field in declaration order, and
\* last the decoding of the id through FromID.
C17_FirstError ==
    pc = "done" =>
        /\ OneOutcome
        /\ LET first == FirstError(<<PresenceError, RelationsError, IdDecodeError>>)
           IN  IF first = None THEN IsOk(result) ELSE result = Err(first.val)

\* unparsable id text and a mapping whose first field is missing and whose
\* second field has unparsable text: the error is that of the first field
C17_Witness ==
    /\ pc = "done"
    /\ Declares("id")
    /\ req.data.id = Some(<<"x">>)
    /\ IdDecodeError # None
    /\ ~UnitRelations
    /\ req.data.relationships # None
    /\ DOMAIN req.data.relationships.val = {"other"}
    /\ req.data.relationships.val["other"].data = ToOne(Identifier(<<"x">>, "fakes"))
    /\ result = Err(new_bad_request(
                    Title("missing mandatory relationship 'simple'", <<>>)))

C17_WitnessUnit ==
    /\ pc = "done"
    /\ IdDecodeError # None
    /\ UnitRelations /\ RelationshipsNonEmpty
    /\ result = Err(UnexpectedRelationships)

C17_WitnessIdLast ==
    /\ pc = "done"
    /\ IdDecodeError # None
    /\ RelationsError = None
    /\ ~UnitRelations
    /\ result = Err(IdDecodeError.val)

\* a relationship with `typ` as the type of each of its identifiers
RetypedRelationship(rel, typ) ==
    IF rel.tag = "ToOne" THEN ToOne(Identifier(rel.one.id, typ))
    ELSE ToMany([i \in 1..Len(rel.many) |-> Identifier(rel.many[i].id, typ)])

\* a request with `typ` as its type and, under each key k of its
\* relationships, types[k] as the type of the identifiers
Retyped(rq, typ, types) ==
    [data |-> [id |-> rq.data.id,
               typ |-> typ,
               attributes |-> rq.data.attributes,
               relationships |->
                   IF rq.data.relationships = None THEN None
                   ELSE Some([k \in DOMAIN rq.data.relationships.val |->
                                 RelationshipData(
                                     RetypedRelationship(
                                         rq.data.relationships.val[k].data, types[k]))])]]

RelationshipKeys(rq) ==
    IF rq.data.relationships = None THEN {} ELSE DOMAIN rq.data.relationships.val

\* C19: the outcome of from_request, the entity or the error, is the same
\* for the requests that differ from the one decoded only in their type and
\* in the types of the identifiers of their relationships (all of them given
\* another type, or those of one relationship alone); no type has to be the
\* resource type name of the entity or of a relation.
C19_TypesNotInspected ==
    pc = "done" =>
        \A rq \in {Retyped(req, typ, [k \in RelationshipKeys(req) |-> other]) :
                       typ \in {"simples", "t"}, other \in SampleTypes}
                  \cup {Retyped(req, req.data.typ,
                                [k \in RelationshipKeys(req) |->
                                    IF k = j THEN "t" ELSE "fakes"]) :
                           j \in RelationshipKeys(req)} :
            result = from_request(ty, rq)

\* a request of type "t" for the entity named "simples", whose relation
\* `simple` (of resource type "simples") carries an identifier of type "fakes"
C19_Witness ==
    /\ pc = "done"
    /\ TypeName = "simples"
    /\ req.data.typ = "t"
    /\ ~UnitRelations
    /\ req.data.relationships # None
    /\ "simple" \in DOMAIN req.data.relationships.val
    /\ req.data.relationships.val["simple"].data = ToOne(Identifier(<<"7">>, "fakes"))
    /\ IsOk(result)
    /\ "simple" \in DOMAIN result.val["relations"]
    /\ result.val["relations"]["simple"] = [neg |-> FALSE, digits |-> <<"7">>]

\* C12: for an entity with an `attributes` field, a request that decodes
\* yields an entity whose attributes field is the request's attributes, and
\* the attributes that entity then encodes are equal to the attributes of the
\* request.
C12_AttributesRoundTrip ==
    (Declares("attributes") /\ pc \in {"done", "encoded"} /\ IsOk(result)) =>
        /\ result.val["attributes"] = req.data.attributes
        /\ pc = "encoded" => built = req.data.attributes

C12_Witness ==
    /\ pc = "encoded"
    /\ Declares("attributes")
    /\ Declares("relations")
    /\ req.data.attributes = [foo |-> "test", bar |-> Some(4)]
    /\ self["attributes"] = [foo |-> "test", bar |-> Some(4)]
    /\ built = [foo |-> "test", bar |-> Some(4)]

----------------------------------------------------------------------------
(* Response (lib.rs 188-246, 459-494).  A Response<P, I> is                *)
(* [P, I, primary, included]: the two type parameters, which decide the    *)
(* calls the compiler accepts, and the two fields.                         *)

ResponseOk(data) == [tag |-> "Ok", val |-> data]
ResponseError(errors) == [tag |-> "Error", val |-> errors]

\* an IntoResponse implementation, as the one of the crate's tests
\* (lib.rs 678-691): the id through ID::from, the attributes as they are
into_response(e) ==
    [id |-> Identifier(id_from(e.id_type, e.id), e.typ),
     attributes |-> e.attributes,
     relationships |-> None]

into_response_each(v) == [k \in 1..Len(v) |-> into_response(v[k])]

\* impl<R: IntoResponse, I> From<R> for Response<R::Attributes, I>
from_resource(e, I) ==
    [P |-> e.attrs_type, I |-> I,
     primary |-> ResponseOk(<<into_response(e)>>), included |-> None]

\* impl<R: IntoResponse, I> From<Vec<R>> for Response<R::Attributes, I>
from_resources(R, v, I) ==
    [P |-> R, I |-> I,
     primary |-> ResponseOk(into_response_each(v)), included |-> None]

\* impl From<Error> for Response<(), ()>
from_error(e) ==
    [P |-> "()", I |-> "()", primary |-> ResponseError(<<e>>), included |-> None]

\* impl From<Vec<Error>> for Response<(), ()>
from_errors(v) ==
    [P |-> "()", I |-> "()", primary |-> ResponseError(v), included |-> None]

include_replace_mutant(resp, resource) ==
    [resp EXCEPT !.included = Some(<<into_response(resource)>>)]

\* Response::include
include(resp, resource) ==
    IF resp.included = None
    THEN [resp EXCEPT !.included = Some(<<into_response(resource)>>)]
    ELSE [resp EXCEPT !.included = Some(Append(resp.included.val, into_response(resource)))]

\* Response::include_many
include_many(resp, resources) ==
    IF resp.included = None
    THEN [resp EXCEPT !.included = Some(into_response_each(resources))]
    ELSE [resp EXCEPT !.included =
              Some(resp.included.val \o into_response_each(resources))]

\* Response<P, Option<()>>::finish
finish(resp) == resp

----------------------------------------------------------------------------
(* A caller that builds a Response and includes resources in it.           *)

MaxIncluded == 3

Entities ==
    { [ident |-> "SimpleResponse", typ |-> "simple", id_type |-> "usize",
       id |-> [neg |-> FALSE, digits |-> <<"7">>],
       attrs_type |-> "SimpleAttributes", attributes |-> [foo |-> "foo", bar |-> None]],
      [ident |-> "SimpleResponse", typ |-> "simple", id_type |-> "usize",
       id |-> [neg |-> FALSE, digits |-> <<"4", "2">>],
       attrs_type |-> "SimpleAttributes", attributes |-> [foo |-> "bar", bar |-> Some(3)]],
      [ident |-> "FakeResponse", typ |-> "fakes", id_type |-> "usize",
       id |-> [neg |-> FALSE, digits |-> <<"5">>],
       attrs_type |-> "Option<()>", attributes |-> None],
      [ident |-> "Marker", typ |-> "markers", id_type |-> "ID",
       id |-> <<"m">>,
       attrs_type |-> "()", attributes |-> Unit] }

AttributesTypes == {e.attrs_type : e \in Entities}

EntitiesOf(A) == {e \in Entities : e.attrs_type = A}

Errors == {new_bad_request(Title("bad", <<>>)), new_not_found(Title("gone", <<>>))}

InitResponse ==
    /\ response = None
    /\ calls = <<>>
    /\ built = <<>>
    /\ pc = "new"
    /\ ty = Unused /\ id = Unused /\ r = Unused /\ rels = Unused /\ req = Unused
    /\ self = Unused /\ result = Unused

FromResource ==
    /\ pc = "new"
    /\ \E e \in Entities, I \in AttributesTypes :
          /\ response' = from_resource(e, I)
          /\ built' = <<into_response(e)>>
    /\ pc' = "built"
    /\ UNCHANGED <<ty, id, r, rels, req, self, calls, result>>

FromResources ==
    /\ pc = "new"
    /\ \E R \in AttributesTypes, I \in AttributesTypes :
          \E v \in SeqsUpTo(EntitiesOf(R), MaxMany) :
              /\ response' = from_resources(R, v, I)
              /\ built' = into_response_each(v)
    /\ pc' = "built"
    /\ UNCHANGED <<ty, id, r, rels, req, self, calls, result>>

FromError ==
    /\ pc = "new"
    /\ \E e \in Errors : response' = from_error(e)
    /\ pc' = "built"
    /\ UNCHANGED <<ty, id, r, rels, req, self, calls, built, result>>

FromErrors ==
    /\ pc = "new"
    /\ \E v \in SeqsUpTo(Errors, MaxMany) : response' = from_errors(v)
    /\ pc' = "built"
    /\ UNCHANGED <<ty, id, r, rels, req, self, calls, built, result>>

\* include accepts a resource whose Attributes type is the response's I
Include ==
    /\ pc = "built"
    /\ Len(calls) < MaxIncluded
    /\ \E resource \in EntitiesOf(response.I) :
          /\ response' = include(response, resource)
          /\ calls' = Append(calls, into_response(resource))
    /\ UNCHANGED <<ty, id, r, rels, req, self, built, result, pc>>

IncludeMany ==
    /\ pc = "built"
    /\ \E resources \in SeqsUpTo(EntitiesOf(response.I), MaxMany) :
          /\ Len(calls) + Len(resources) <= MaxIncluded
          /\ response' = include_many(response, resources)
          /\ calls' = calls \o into_response_each(resources)
    /\ UNCHANGED <<ty, id, r, rels, req, self, built, result, pc>>

\* finish is defined for I = Option<()> alone
Finish ==
    /\ pc = "built"
    /\ response.I = "Option<()>"
    /\ response' = finish(response)
    /\ UNCHANGED <<ty, id, r, rels, req, self, calls, built, result, pc>>

NextResponse ==
    \/ FromResource \/ FromResources \/ FromError \/ FromErrors
    \/ Include \/ IncludeMany \/ Finish

SpecResponse == InitResponse /\ [][NextResponse]_vars

\* the included resources of a Response: none when the field is None
IncludedList(resp) == IF resp.included = None THEN <<>> ELSE resp.included.val

\* C8: in a Response built from one entity or from a sequence of entities,
\* after any include and include_many calls, the included list is the
\* concatenation, in call order, of the converted resources handed to the
\* calls, and the primary data is still the encodings of the entities the
\* Response was built from, in their order.
C8_IncludeOrder ==
    (pc = "built" /\ response.primary.tag = "Ok") =>
        /\ IncludedList(response) = calls
        /\ response.primary = ResponseOk(built)

C8_Witness ==
    /\ pc = "built"
    /\ response.primary.tag = "Ok"
    /\ Len(response.primary.val) = 1
    /\ Len(calls) = 3
    /\ calls[1] # calls[2]
    /\ IncludedList(response) = calls

\* C9 as stated: a Response built from an Error or from a sequence of Errors
\* has the primary channel Error and no included resources, and no Response
\* reachable through the From conversions, include, include_many and finish
\* has a primary channel Error together with included resources.
C9_ErrorNeverIncluded ==
    (pc = "built" /\ response.primary.tag = "Error") => response.included = None

----------------------------------------------------------------------------
(* A caller of any decoding path of the core: FromID, FromRelationship,    *)
(* the derived and the unit FromRelationships, the derived FromRequest.    *)

InitDecode ==
    /\ \/ /\ pc = "from_id"
          /\ ty \in IdTypes /\ id \in IdTexts
          /\ r = Unused /\ rels = Unused /\ req = Unused
       \/ /\ pc = "from_relationship"
          /\ ty \in RelationTypes(IdTypes)
          /\ r \in Relationships(SampleIdentifiers, MaxMany)
          /\ id = Unused /\ rels = Unused /\ req = Unused
       \/ /\ pc = "from_relationships"
          /\ ty \in {UnitType} \cup {DerivedType(h) : h \in HolderProps}
          /\ rels \in IncomingRels
          /\ id = Unused /\ r = Unused /\ req = Unused
       \/ /\ pc = "from_request"
          /\ ty \in EntityProps /\ req \in Requests(ty)
          /\ id = Unused /\ r = Unused /\ rels = Unused
    /\ self = Unused /\ response = Unused /\ calls = Unused /\ built = Unused
    /\ result = Pending

DecodeFromID ==
    /\ pc = "from_id"
    /\ result' = from_id(ty, id)
    /\ pc' = "id_done"
    /\ UNCHANGED <<ty, id, r, rels, req, self, response, calls, built>>

DecodeFromRelationship ==
    /\ pc = "from_relationship"
    /\ result' = from_relationship(ty, r)
    /\ pc' = "relationship_done"
    /\ UNCHANGED <<ty, id, r, rels, req, self, response, calls, built>>

DecodeFromRelationships ==
    /\ pc = "from_relationships"
    /\ result' = from_relationships(ty, rels)
    /\ pc' = "relationships_done"
    /\ UNCHANGED <<ty, id, r, rels, req, self, response, calls, built>>

DecodeFromRequest ==
    /\ pc = "from_request"
    /\ result' = from_request(ty, req)
    /\ pc' = "request_done"
    /\ UNCHANGED <<ty, id, r, rels, req, self, response, calls, built>>

NextDecode ==
    \/ DecodeFromID \/ DecodeFromRelationship
    \/ DecodeFromRelationships \/ DecodeFromRequest

SpecDecode == InitDecode /\ [][NextDecode]_vars

Decoded == pc \in {"id_done", "relationship_done", "relationships_done", "request_done"}

\* C11: every decoding path returns Ok or an Error, and every Error a
\* decoding path returns has status BadRequest: none has Unauthorized,
\* Forbidden, NotFound, Conflict or InternalError.
C11_DecodingBadRequest ==
    Decoded =>
        /\ result.tag \in {"Ok", "Err"}
        /\ IsErr(result) =>
              /\ result.err.status = "BadRequest"
              /\ result.err.status \notin
                     {"Unauthorized", "Forbidden", "NotFound", "Conflict", "InternalError"}

\* a request whose id is present as declared and whose relationship entry
\* carries text that is no unsigned number: the error comes up from from_id
\* through from_relationship, from_relationships and from_request
C11_Witness ==
    /\ pc = "request_done"
    /\ Declares("id") /\ RequestHasId
    /\ Declares("relations") /\ ~UnitRelations
    /\ req.data.relationships # None
    /\ "simple" \in DOMAIN req.data.relationships.val
    /\ result = Err(new_bad_request(
                    Title("invalid value for unsigned id value: ", <<"x">>)))

----------------------------------------------------------------------------
(* Serialize, as serde derives it for the wire types.  A JSON object is a  *)
(* record, an array a sequence, null is None; an Option that is Some is    *)
(* the value itself.                                                       *)

\* #[serde(rename = ...)] of each variant of ErrorStatus
ErrorStatus_serialize(status) ==
    CASE status = "BadRequest" -> "400"
      [] status = "Unauthorized" -> "401"
      [] status = "Forbidden" -> "403"
      [] status = "NotFound" -> "404"
      [] status = "Conflict" -> "409"
      [] status = "InternalError" -> "500"

Option_serialize(o) == IF o.tag = "Some" THEN o.val ELSE None

Error_serialize(e) ==
    [status |-> ErrorStatus_serialize(e.status),
     code |-> Option_serialize(e.code),
     title |-> e.title,
     detail |-> Option_serialize(e.detail)]

\* ResourceResponse: the identifier flattened, `typ` renamed "type"
ResourceResponse_serialize(res) ==
    [id |-> res.id.id, type |-> res.id.typ, attributes |-> res.attributes,
     relationships |-> Option_serialize(res.relationships)]

\* Response: the primary channel flattened, Ok renamed "data" and Error "errors"
Response_serialize(resp) ==
    LET included ==
            IF resp.included.tag = "Some"
            THEN [k \in 1..Len(resp.included.val) |->
                     ResourceResponse_serialize(resp.included.val[k])]
            ELSE None
    IN  IF resp.primary.tag = "Error"
        THEN [errors |-> [k \in 1..Len(resp.primary.val) |->
                             Error_serialize(resp.primary.val[k])],
              included |-> included]
        ELSE [data |-> [k \in 1..Len(resp.primary.val) |->
                           ResourceResponse_serialize(resp.primary.val[k])],
              included |-> included]

----------------------------------------------------------------------------
(* ResponseError for Error and the conversions beside it                   *)
(* (lib.rs 574-604).  A StatusCode is its number; an HttpResponse is       *)
(* [status, body].                                                         *)

StatusCode_from_conflict_mutant(status) ==
    CASE status = "BadRequest" -> 400
      [] status = "Unauthorized" -> 401
      [] status = "Forbidden" -> 403
      [] status = "NotFound" -> 404
      [] status = "Conflict" -> 400
      [] status = "InternalError" -> 500

\* impl Into<StatusCode> for &ErrorStatus
StatusCode_from(status) ==
    CASE status = "BadRequest" -> 400
      [] status = "Unauthorized" -> 401
      [] status = "Forbidden" -> 403
      [] status = "NotFound" -> 404
      [] status = "Conflict" -> 409
      [] status = "InternalError" -> 500

status_code(e) == StatusCode_from(e.status)

\* HttpResponseBuilder::new(status).json(value)
HttpResponseBuilder_json(status, value) == [status |-> status, body |-> value]

\* ResponseError::error_response
error_response(e) ==
    HttpResponseBuilder_json(status_code(e), Response_serialize(from_error(e)))

\* impl Into<HttpResponse> for Error
into_HttpResponse(e) ==
    HttpResponseBuilder_json(status_code(e), Response_serialize(from_error(e)))

----------------------------------------------------------------------------
(* A caller that holds an Error and renders it.                            *)

ErrorTitles == {Title("bad", <<>>), Title("gone", <<>>)}

\* the Errors of the six constructors, and Errors built field by field
ErrorValues ==
    {new_bad_request(t) : t \in ErrorTitles} \cup {new_not_found(t) : t \in ErrorTitles}
        \cup {new_internal_error(t) : t \in ErrorTitles}
        \cup {new_forbidden(t) : t \in ErrorTitles}
        \cup {new_unauthorized(t) : t \in ErrorTitles}
        \cup {new_conflict(t) : t \in ErrorTitles}
        \cup [status : ErrorStatuses, code : {None, Some("E1")},
              title : ErrorTitles, detail : {None, Some("why")}]

InitErrorResponse ==
    /\ self \in ErrorValues
    /\ response = Pending
    /\ result = Pending
    /\ pc = "error"
    /\ ty = Unused /\ id = Unused /\ r = Unused /\ rels = Unused /\ req = Unused
    /\ calls = Unused /\ built = Unused

CallStatusCode ==
    /\ pc = "error"
    /\ result' = status_code(self)
    /\ pc' = "status"
    /\ UNCHANGED <<ty, id, r, rels, req, self, response, calls, built>>

CallErrorResponse ==
    /\ pc = "error"
    /\ response' = error_response(self)
    /\ pc' = "responded"
    /\ UNCHANGED <<ty, id, r, rels, req, self, calls, built, result>>

CallIntoHttpResponse ==
    /\ pc = "error"
    /\ response' = into_HttpResponse(self)
    /\ pc' = "converted"
    /\ UNCHANGED <<ty, id, r, rels, req, self, calls, built, result>>

NextErrorResponse == CallStatusCode \/ CallErrorResponse \/ CallIntoHttpResponse

SpecErrorResponse == InitErrorResponse /\ [][NextErrorResponse]_vars

\* the numeric code each status is said to have
NumericCode(status) ==
    CASE status = "BadRequest" -> 400
      [] status = "Unauthorized" -> 401
      [] status = "Forbidden" -> 403
      [] status = "NotFound" -> 404
      [] status = "Conflict" -> 409
      [] status = "InternalError" -> 500

DigitChar(d) ==
    CASE d = 0 -> "0" [] d = 1 -> "1" [] d = 2 -> "2" [] d = 3 -> "3" [] d = 4 -> "4"
      [] d = 5 -> "5" [] d = 6 -> "6" [] d = 7 -> "7" [] d = 8 -> "8" [] d = 9 -> "9"

\* the decimal text of a natural number
RECURSIVE Decimal(_)
Decimal(n) == IF n < 10 THEN DigitChar(n) ELSE Decimal(n \div 10) \o DigitChar(n % 10)

\* C15: each of the six statuses has its own numeric code, 400, 401, 403,
\* 404, 409 and 500, as HTTP status and, in decimal, as wire text; the
\* response rendered for an Error has the numeric code of the Error's status
\* as its status and, as its body, the document of the Error channel with
\* that one error and nothing else.
C15_ErrorStatusCodes ==
    /\ \A s \in ErrorStatuses :
          /\ StatusCode_from(s) = NumericCode(s)
          /\ ErrorStatus_serialize(s) = Decimal(NumericCode(s))
          /\ \A t \in ErrorStatuses : StatusCode_from(s) = StatusCode_from(t) => s = t
    /\ pc = "status" => result = NumericCode(self.status)
    /\ pc \in {"responded", "converted"} =>
          /\ response.status = NumericCode(self.status)
          /\ DOMAIN response.body = {"errors", "included"}
          /\ response.body.included = None
          /\ Len(response.body.errors) = 1
          /\ response.body.errors[1] =
                 [status |-> Decimal(NumericCode(self.status)),
                  code |-> IF self.code = None THEN None ELSE self.code.val,
                  title |-> self.title,
                  detail |-> IF self.detail = None THEN None ELSE self.detail.val]

C15_Witness ==
    /\ pc = "responded"
    /\ self = new_conflict(Title("gone", <<>>))
    /\ response.status = 409
    /\ response.body.errors[1].status = "409"
    /\ response.body.errors[1].code = "Confict"

----------------------------------------------------------------------------
(* The extractor of the actix-web binding (lib.rs 496-572).  The JsonBody  *)
(* a JsonApiExtractFut holds is what its next poll returns: Pending while  *)
(* the body is being read, then Ok(the Request read) or Err(the            *)
(* JsonPayloadError).                                                      *)

JsonApi(inner) == [tag |-> "JsonApi", inner |-> inner]

Ready(output) == [tag |-> "Ready", val |-> output]

JsonPayloadErrors == {"ContentType", "Deserialize", "Payload"}

\* impl From<JsonPayloadError> for Error
from_JsonPayloadError(err) == new_bad_request(Title("JsonPayloadError: ", <<err>>))

\* fn from_request(req, payload) of FromWebRequest
JsonApiExtractFut == [fut |-> Pending]

\* the match on the result of T::from_request: Ok(inner) becomes
\* Ok(JsonApi(inner)), Err(err) stays Err(err)
map_JsonApi(res) == IF IsOk(res) THEN Ok(JsonApi(res.val)) ELSE res

poll_twice_mutant(T, this, history) ==
    IF this.fut = Pending THEN [output |-> Pending, calls |-> history]
    ELSE IF IsErr(this.fut)
         THEN [output |-> Ready(Err(from_JsonPayloadError(this.fut.err))),
               calls |-> history]
         ELSE [output |-> Ready(map_JsonApi(from_request(T, this.fut.val))),
               calls |-> history \o <<this.fut.val, this.fut.val>>]

\* Future::poll: the output, and the calls of T::from_request made so far
poll(T, this, history) ==
    IF this.fut = Pending THEN [output |-> Pending, calls |-> history]
    ELSE IF IsErr(this.fut)
         THEN [output |-> Ready(Err(from_JsonPayloadError(this.fut.err))),
               calls |-> history]
         ELSE [output |-> Ready(map_JsonApi(from_request(T, this.fut.val))),
               calls |-> Append(history, this.fut.val)]

----------------------------------------------------------------------------
(* An executor that polls the extractor while the connection delivers the  *)
(* body, fails, or the extraction is dropped.                              *)

\* entities without a relations field
ExtractEntities ==
    {p \in EntityProps :
        p.name = None /\ \A k \in 1..Len(p.fields) : p.fields[k].ident # "relations"}

\* the bodies sent to them
ExtractRequests(props) ==
    {q \in Requests(props) :
        /\ q.data.typ = "simples"
        /\ q.data.relationships # None => DOMAIN q.data.relationships.val \subseteq {UndeclaredKey}}

InitExtract ==
    /\ ty \in ExtractEntities
    /\ req \in ExtractRequests(ty)
    /\ self = JsonApiExtractFut
    /\ calls = <<>>
    /\ result = Pending
    /\ pc = "created"
    /\ id = Unused /\ r = Unused /\ rels = Unused /\ response = Unused /\ built = Unused

\* the body has been read and parsed
BodyRead ==
    /\ pc \in {"created", "pending"}
    /\ self.fut = Pending
    /\ self' = [self EXCEPT !.fut = Ok(req)]
    /\ UNCHANGED <<ty, id, r, rels, req, response, calls, built, result, pc>>

\* reading or parsing the body has failed
BodyFails ==
    /\ pc \in {"created", "pending"}
    /\ self.fut = Pending
    /\ \E err \in JsonPayloadErrors : self' = [self EXCEPT !.fut = Err(err)]
    /\ UNCHANGED <<ty, id, r, rels, req, response, calls, built, result, pc>>

Poll ==
    /\ pc \in {"created", "pending"}
    /\ \E p \in {poll(ty, self, calls)} :
           /\ result' = p.output
           /\ calls' = p.calls
           /\ pc' = IF p.output = Pending THEN "pending" ELSE "ready"
    /\ UNCHANGED <<ty, id, r, rels, req, self, response, built>>

\* the extraction is cancelled: the future is dropped before it is ready
DropFuture ==
    /\ pc \in {"created", "pending"}
    /\ pc' = "dropped"
    /\ UNCHANGED <<ty, id, r, rels, req, self, response, calls, built, result>>

NextExtract == BodyRead \/ BodyFails \/ Poll \/ DropFuture

SpecExtract == InitExtract /\ [][NextExtract]_vars

\* what the future completes with once from_request has returned `inner`
Wrapped(inner) == IF IsOk(inner) THEN Ok(JsonApi(inner.val)) ELSE inner

\* where the extraction stands, by the state of the body read
ExtractState ==
    /\ Len(calls) <= 1
    /\ pc = "ready" <=> result # Pending
    /\ self.fut = Pending => (result = Pending /\ calls = <<>>)
    /\ IsErr(self.fut) =>
          /\ calls = <<>>
          /\ pc = "ready" => (result.tag = "Ready" /\ IsBadRequest(result.val))
    /\ IsOk(self.fut) =>
          IF pc = "ready"
          THEN calls = <<req>> /\ result = Ready(Wrapped(from_request(ty, req)))
          ELSE calls = <<>> /\ result = Pending

\* a step that calls from_request: the body has been read, it is the first
\* call, its argument is the Request read, and the step completes the future
ExtractStep ==
    calls' # calls =>
        /\ IsOk(self.fut)
        /\ calls = <<>>
        /\ calls' = <<self.fut.val>>
        /\ result = Pending /\ result'.tag = "Ready"

\* C16: from_request is called only once the body read has succeeded: while
\* the read is pending the future is pending and no call has been made; when
\* the read has failed the future completes with a BadRequest error and no
\* call is ever made; when the read has succeeded the future completes in the
\* step that makes the one call of from_request, with the entity wrapped in
\* JsonApi or with the error of that call.
C16_ExtractOrder == []ExtractState /\ [][ExtractStep]_vars

C16_Witness ==
    /\ pc = "ready"
    /\ Declares("id") /\ Declares("attributes")
    /\ self.fut = Ok(req)
    /\ calls = <<req>>
    /\ result.val.tag = "Ok"
    /\ result.val.val.inner["attributes"] = req.data.attributes

C16_WitnessFailed ==
    /\ pc = "ready"
    /\ self.fut = Err("Payload")
    /\ calls = <<>>
    /\ IsBadRequest(result.val)

C16_WitnessRejected ==
    /\ pc = "ready"
    /\ calls = <<req>>
    /\ result = Ready(Err(IdNotAllowed))

=============================================================================
